---------------------------- MODULE Spec2Model ----------------------------
(***************************************************************************)
(* A model of coco/coco_experiment_rayes.cpp: the experiment loop          *)
(* (example_experiment), the three search strategies (my_random_search,    *)
(* my_grid_search, my_search) and the timing instrumentation               *)
(* (timing_data_time_problem, timing_data_finalize).                       *)
(*                                                                         *)
(* The strategies my_grid_search and my_random_search are not called by    *)
(* the experiment loop; they are modelled as calls on their own (SpecGrid, *)
(* SpecRandom).  my_search is modelled both as a call on its own with an   *)
(* arbitrary budget (SpecSearch) and as called by the loop (Spec).         *)
(***************************************************************************)
EXTENDS Integers, Sequences, FiniteSets, TLC

VARIABLES
  pc,               \* position of the single thread of control
  PROBLEM,          \* the active problem (global PROBLEM, line 56)
  logged,           \* the last evaluation the problem received: kind and point
  dimension,        \* parameter `dimension` of the running strategy
  max_budget,       \* parameter `max_budget` of the running strategy
  lower_bounds,     \* lower bound of every coordinate
  upper_bounds,     \* upper bound of every coordinate
  x,                \* the strategy's point buffer
  nodes,            \* my_grid_search: index vector (nodes[1] is the code's nodes[0])
  max_nodes,        \* my_grid_search: largest index on every axis
  evaluations,      \* my_grid_search: local count of evaluations
  i,                \* my_random_search: loop counter
  caller,           \* my_search: who called it (where it returns to)
  wrapper_calls,    \* my_search: calls of evalFuncWrapper/evalConsWrapper by the solver
  handler,          \* my_search: how the try block of lines 490-514 ended
  buffers,          \* my_search: the state of each buffer the call acquires
  BUDGET_MULTIPLIER,     \* line 34 (scaled down)
  INDEPENDENT_RESTARTS,  \* line 39
  suite_index,      \* example_experiment: problems the suite has handed out
  firstFunction,    \* example_experiment: parameter
  lastFunction,     \* example_experiment: parameter
  prevDimension,    \* example_experiment: line 219
  cnt,              \* example_experiment: line 221
  run,              \* example_experiment: line 193
  evaluations_done, \* example_experiment: line 249
  evaluations_remaining, \* example_experiment: line 254
  at_call,          \* the problem's counters when the strategy was last called
  outcome,          \* what lines 273-279 did after the last strategy call
  timing_data,      \* the timing_data_t record
  now,              \* the clock read by time()
  printed,          \* the summary lines timing_data_finalize printed
  fed               \* the problem stream a timing run on its own has consumed

strategyVars == <<dimension, max_budget, lower_bounds, upper_bounds, x>>
gridVars == <<nodes, max_nodes, evaluations>>
randomVars == <<i>>
searchVars == <<caller, wrapper_calls, handler, buffers>>
configVars == <<BUDGET_MULTIPLIER, INDEPENDENT_RESTARTS, firstFunction, lastFunction>>
loopVars == <<suite_index, prevDimension, cnt, run, evaluations_done,
              evaluations_remaining, at_call, outcome>>
driverVars == <<configVars, loopVars>>
timingVars == <<timing_data, now, printed, fed>>
vars == <<pc, PROBLEM, logged, strategyVars, gridVars, randomVars, searchVars,
          driverVars, timingVars>>

-----------------------------------------------------------------------------
(* Bounds of the model *)

GridMaxDimension == 3
GridMaxBudget == 64
RandomMaxDimension == 2
RandomMaxBudget == 3
MaxConstraints == 1
SearchMaxDimension == 2
SearchMaxBudget == 5
SearchMaxEvaluations == 2
MaxDimensions == 2
MaxFunctions == 2
MaxBudgetMultiplier == 1
MaxIndependentRestarts == 1
MockMaxEvaluations == 1
TimingMaxDimensions == 3
TimingMaxStream == 6
TimingMaxEvaluations == 2
\* The instances per function, 15 in the code (line 216) and in the suite
\* (line 206), scaled down.
nInstances == 2

-----------------------------------------------------------------------------
(* Arithmetic helpers *)

Min(a, b) == IF a < b THEN a ELSE b

RECURSIVE Power(_, _)
Power(b, e) == IF e = 0 THEN 1 ELSE b * Power(b, e - 1)

\* The largest r with r^d <= b: the exact value of floor(b^(1/d)).
RECURSIVE RootFrom(_, _, _)
RootFrom(b, d, r) == IF Power(r + 1, d) <= b THEN RootFrom(b, d, r + 1) ELSE r

ExactFloorRoot(b, d) == RootFrom(b, d, 0)

(***************************************************************************)
(* pow((double) b, 1.0 / (double) d) followed by floor, line 378, in IEEE  *)
(* double arithmetic with a correctly rounded pow.  1.0/3.0 is rounded     *)
(* below 1/3, and for a perfect cube b = r^3 with r >= 4 the rounded power *)
(* falls one unit in the last place below r, so that floor gives r - 1     *)
(* (pow(64.0, 1.0/3.0) = 3.9999999999999996).  For every other pair with   *)
(* b <= 4000 and d <= 8 the double result has the exact floor.             *)
(***************************************************************************)
PowRoundsBelow(b, d) ==
  LET r == ExactFloorRoot(b, d) IN d = 3 /\ r >= 4 /\ Power(r, 3) = b

FloorPow(b, d) ==
  IF PowRoundsBelow(b, d) THEN ExactFloorRoot(b, d) - 1 ELSE ExactFloorRoot(b, d)

-----------------------------------------------------------------------------
(* The problem and the evaluation gateway *)

NoPoint == <<>>
NotLogged == [kind |-> "none", point |-> NoPoint]

\* A problem as the suite hands it out: no evaluation made yet.
NewProblem(dim, ncons) ==
  [dimension |-> dim, number_of_constraints |-> ncons,
   evaluations |-> 0, evaluations_constraints |-> 0,
   final_target_hit |-> FALSE, function |-> 0, instance |-> 0]

\* The null pointer coco_suite_get_next_problem returns at the end of the suite.
NULL == [null |-> TRUE]

NoCounters == [evaluations |-> 0, evaluations_constraints |-> 0]
NewTimingData(ndims, t) ==
  [number_of_dimensions |-> ndims, current_idx |-> 0, output |-> <<>>,
   previous_dimension |-> 0, cumulative_evaluations |-> 0,
   start_time |-> t, overall_start_time |-> t]

\* The variables of the parts that are not running.
GridIdle == nodes = <<>> /\ max_nodes = 0 /\ evaluations = 0
RandomIdle == i = 0
NoBuffers ==
  [x |-> "none", functions_values |-> "none", constraints_values |-> "none",
   values |-> "none"]
SearchIdle ==
  caller = "none" /\ wrapper_calls = 0 /\ handler = "none" /\ buffers = NoBuffers
DriverIdle ==
  /\ BUDGET_MULTIPLIER = 0 /\ INDEPENDENT_RESTARTS = 0
  /\ firstFunction = 0 /\ lastFunction = 0
  /\ suite_index = 0 /\ prevDimension = 0 /\ cnt = 0 /\ run = 0
  /\ evaluations_done = 0 /\ evaluations_remaining = 0
  /\ at_call = NoCounters /\ outcome = "none"
TimingIdle ==
  timing_data = NewTimingData(0, 0) /\ now = 0 /\ printed = <<>> /\ fed = <<>>

\* evaluate_function: coco_evaluate_function counts one objective evaluation.
EvaluateFunction(p) == [p EXCEPT !.evaluations = @ + 1]

\* evaluate_constraint: coco_evaluate_constraint counts one constraint evaluation.
EvaluateConstraint(p) == [p EXCEPT !.evaluations_constraints = @ + 1]

Bounds(dim, lo, hi) == [lb |-> [j \in 1..dim |-> lo], ub |-> [j \in 1..dim |-> hi]]

-----------------------------------------------------------------------------
(* my_grid_search *)

\* max_nodes as lines 378-381 compute it.
GridMaxNodes(budget, dim) ==
  LET m == FloorPow(budget, dim) - 1 IN IF m < 1 THEN 1 ELSE m

\* Line 393 with grid_step[j] = (upper - lower) / max_nodes (line 386): the
\* point is kept multiplied by max_nodes, so that it stays an integer.
GridPoint(nd, mn, lb, ub, dim) ==
  [j \in 1..dim |-> lb[j] * mn + (ub[j] - lb[j]) * nd[j]]

\* GridStep with the test of line 402 off by one (<= for <).
GridStepOffByOne(nd, mn, dim) ==
  IF nd[1] <= mn
    THEN [nodes |-> [nd EXCEPT ![1] = @ + 1], brk |-> FALSE]
    ELSE [nodes |-> [k \in 1..dim |-> IF k = 1 THEN 0 ELSE nd[k]],
          brk |-> nd[dim] = mn]

\* GridStep without the reset of lines 411-412.
GridStepNoReset(nd, mn, dim) ==
  IF nd[1] < mn
    THEN [nodes |-> [nd EXCEPT ![1] = @ + 1], brk |-> FALSE]
    ELSE LET carry == {j \in 2..dim : nd[j] < mn} IN
         IF carry # {}
           THEN LET J == CHOOSE j \in carry : \A k \in carry : j <= k IN
                [nodes |-> [nd EXCEPT ![J] = @ + 1], brk |-> FALSE]
           ELSE [nodes |-> nd, brk |-> nd[dim] = mn]

\* Lines 401-420: the move to the next node.  The result is the new index
\* vector and whether the loop is left by the break of line 419.
GridStep(nd, mn, dim) ==
  IF nd[1] < mn
    THEN [nodes |-> [nd EXCEPT ![1] = @ + 1], brk |-> FALSE]
    ELSE IF mn > 0
      THEN LET carry == {j \in 2..dim : nd[j] < mn} IN
           IF carry # {}
             THEN LET J == CHOOSE j \in carry : \A k \in carry : j <= k IN
                  [nodes |-> [k \in 1..dim |->
                                IF k < J THEN 0
                                ELSE IF k = J THEN nd[k] + 1 ELSE nd[k]],
                   brk |-> FALSE]
             ELSE [nodes |-> nd, brk |-> nd[dim] = mn]
      ELSE [nodes |-> nd, brk |-> FALSE]

GridInit ==
  \E dim \in 1..GridMaxDimension, budget \in 1..GridMaxBudget,
     lo \in {-5, 0}, hi \in {0, 5} :
    /\ dimension = dim
    /\ max_budget = budget
    /\ lower_bounds = Bounds(dim, lo, hi).lb
    /\ upper_bounds = Bounds(dim, lo, hi).ub
    /\ PROBLEM = NewProblem(dim, 0)
    /\ logged = NotLogged
    /\ max_nodes = GridMaxNodes(budget, dim)
    /\ nodes = [j \in 1..dim |-> 0]
    /\ evaluations = 0
    /\ x = [j \in 1..dim |-> 0]
    /\ i = 0
    /\ SearchIdle
    /\ DriverIdle
    /\ TimingIdle
    /\ pc = "grid_loop"

\* Lines 389-399: the loop test, the construction of x and its evaluation.
GridEvaluate ==
  /\ pc = "grid_loop"
  /\ evaluations < max_budget
  /\ x' = GridPoint(nodes, max_nodes, lower_bounds, upper_bounds, dimension)
  /\ PROBLEM' = EvaluateFunction(PROBLEM)
  /\ logged' = [kind |-> "function", point |-> x']
  /\ evaluations' = evaluations + 1
  /\ pc' = "grid_move"
  /\ UNCHANGED <<dimension, max_budget, lower_bounds, upper_bounds, nodes,
                 max_nodes, randomVars, searchVars, driverVars, timingVars>>

\* Lines 401-420.
GridMove ==
  /\ pc = "grid_move"
  /\ LET s == GridStep(nodes, max_nodes, dimension) IN
       /\ nodes' = s.nodes
       /\ pc' = IF s.brk THEN "grid_done" ELSE "grid_loop"
  /\ UNCHANGED <<PROBLEM, logged, strategyVars, max_nodes, evaluations,
                 randomVars, searchVars, driverVars, timingVars>>

\* Line 389 false: the budget is used up.
GridExhausted ==
  /\ pc = "grid_loop"
  /\ evaluations >= max_budget
  /\ pc' = "grid_done"
  /\ UNCHANGED <<PROBLEM, logged, strategyVars, gridVars, randomVars,
                 searchVars, driverVars, timingVars>>

GridNext == GridEvaluate \/ GridMove \/ GridExhausted

SpecGrid == GridInit /\ [][GridNext]_vars

(* C1: one call of my_grid_search performs exactly
   min(budget, (max_nodes+1)^dimension) evaluations, where max_nodes is
   max(1, floor(budget^(1/dimension)) - 1) with the exact root. *)
ClaimedMaxNodes ==
  LET m == ExactFloorRoot(max_budget, dimension) - 1 IN IF m < 1 THEN 1 ELSE m

C1_GridEvaluationCount ==
  pc = "grid_done" =>
    /\ evaluations = Min(max_budget, Power(ClaimedMaxNodes + 1, dimension))
    /\ PROBLEM.evaluations = evaluations
    /\ max_nodes = ClaimedMaxNodes

(* C9: in my_grid_search every index nodes[j] lies in [0, max_nodes] at every
   evaluation and after every move, and every evaluated coordinate lies
   between lower[j] and upper[j] (the logged point is scaled by max_nodes). *)
C9_NodesWithinGrid ==
  pc \in {"grid_loop", "grid_move", "grid_done"} =>
    /\ \A j \in 1..dimension : 0 <= nodes[j] /\ nodes[j] <= max_nodes
    /\ logged.kind = "function" =>
         \A j \in 1..dimension :
           /\ lower_bounds[j] * max_nodes <= logged.point[j]
           /\ logged.point[j] <= upper_bounds[j] * max_nodes

\* A carry into the last axis has happened, and the far corner was evaluated.
C9_Witness ==
  /\ pc = "grid_done"
  /\ dimension = 3
  /\ max_nodes = 2
  /\ evaluations = 27
  /\ nodes = <<2, 2, 2>>
  /\ lower_bounds[1] < upper_bounds[1]
  /\ logged.point = [j \in 1..3 |-> upper_bounds[j] * max_nodes]

-----------------------------------------------------------------------------
(* my_random_search *)

\* coco_random_uniform, line 336: a number of [0, 1); the model draws it from
\* {0, 1/2} and keeps the point multiplied by 2.
UniformTimesTwo == {0, 1}

RandomPoint(u, lb, ub, dim) ==
  [j \in 1..dim |-> 2 * lb[j] + u[j] * (ub[j] - lb[j])]

RandomInit ==
  \E dim \in 1..RandomMaxDimension, budget \in 0..RandomMaxBudget,
     ncons \in 0..MaxConstraints, lo \in {-5, 0}, hi \in {0, 5} :
    /\ dimension = dim
    /\ max_budget = budget
    /\ lower_bounds = Bounds(dim, lo, hi).lb
    /\ upper_bounds = Bounds(dim, lo, hi).ub
    /\ PROBLEM = NewProblem(dim, ncons)
    /\ logged = NotLogged
    /\ GridIdle
    /\ x = [j \in 1..dim |-> 0]
    /\ i = 0
    /\ SearchIdle
    /\ DriverIdle
    /\ TimingIdle
    /\ pc = "random_loop"

\* Lines 331-339: the loop test, the sampling of x and its objective evaluation.
RandomEvaluateFunc ==
  /\ pc = "random_loop"
  /\ i < max_budget
  /\ \E u \in [1..dimension -> UniformTimesTwo] :
       x' = RandomPoint(u, lower_bounds, upper_bounds, dimension)
  /\ PROBLEM' = EvaluateFunction(PROBLEM)
  /\ logged' = [kind |-> "function", point |-> x']
  /\ pc' = "random_cons"
  /\ UNCHANGED <<dimension, max_budget, lower_bounds, upper_bounds, i, gridVars,
                 searchVars, driverVars, timingVars>>

\* RandomEvaluateCons without the test of line 341.
RandomEvaluateConsUnguarded ==
  /\ pc = "random_cons"
  /\ PROBLEM' = EvaluateConstraint(PROBLEM)
  /\ logged' = [kind |-> "constraint", point |-> x]
  /\ i' = i + 1
  /\ pc' = "random_loop"
  /\ UNCHANGED <<strategyVars, gridVars, searchVars, driverVars, timingVars>>

\* Lines 341-344: the constraint evaluation, if there are constraints, and ++i.
RandomEvaluateCons ==
  /\ pc = "random_cons"
  /\ IF PROBLEM.number_of_constraints > 0
       THEN /\ PROBLEM' = EvaluateConstraint(PROBLEM)
            /\ logged' = [kind |-> "constraint", point |-> x]
       ELSE UNCHANGED <<PROBLEM, logged>>
  /\ i' = i + 1
  /\ pc' = "random_loop"
  /\ UNCHANGED <<strategyVars, gridVars, searchVars, driverVars, timingVars>>

\* Line 331 false: lines 346-349.
RandomReturn ==
  /\ pc = "random_loop"
  /\ i >= max_budget
  /\ pc' = "random_done"
  /\ UNCHANGED <<PROBLEM, logged, strategyVars, gridVars, randomVars,
                 searchVars, driverVars, timingVars>>

RandomNext == RandomEvaluateFunc \/ RandomEvaluateCons \/ RandomReturn

SpecRandom == RandomInit /\ [][RandomNext]_vars

(* C5: one call of my_random_search performs exactly budget objective
   evaluations and, with constraints, exactly budget constraint evaluations
   (none without), each constraint evaluation made directly after the
   objective evaluation of its iteration and on the same point. *)
C5_RandomCounts ==
  pc = "random_done" =>
    /\ PROBLEM.evaluations = max_budget
    /\ PROBLEM.evaluations_constraints =
         IF PROBLEM.number_of_constraints > 0 THEN max_budget ELSE 0

C5_ConstraintAfterObjective ==
  PROBLEM'.evaluations_constraints # PROBLEM.evaluations_constraints =>
    /\ PROBLEM'.evaluations_constraints = PROBLEM.evaluations_constraints + 1
    /\ PROBLEM'.evaluations = PROBLEM.evaluations
    /\ PROBLEM.evaluations = PROBLEM.evaluations_constraints + 1
    /\ logged.kind = "function"
    /\ logged'.kind = "constraint"
    /\ logged'.point = logged.point

C5_RandomSearch == [](C5_RandomCounts) /\ [][C5_ConstraintAfterObjective]_vars

C5_Witness ==
  /\ pc = "random_done"
  /\ max_budget = 3
  /\ PROBLEM.number_of_constraints > 0
  /\ PROBLEM.evaluations = 3
  /\ PROBLEM.evaluations_constraints = 3
  /\ logged.kind = "constraint"

-----------------------------------------------------------------------------
(* my_search *)

\* coco_problem_get_initial_solution, lines 447 and 492.
InitialSolution(dim) == [j \in 1..dim |-> 0]

\* The points the solver asks the wrappers to evaluate: the model lets it
\* choose between the two corners of the region of interest.
SolverPoints == {lower_bounds, upper_bounds}

Total(p) == p.evaluations + p.evaluations_constraints

\* BudgetExhausted with a budget that leaves the warm-up pair out.
BudgetExhaustedAfterWarmup(p, budget) == Total(p) > budget + 2

\* BudgetExhausted with one evaluation more let through.
BudgetExhaustedOneLater(p, budget) == Total(p) > budget + 1

\* The budget test the two wrappers start with, lines 452-455 and 468-471.
BudgetExhausted(p, budget) == Total(p) > budget

\* CatchClause with the clause of line 512 left out.
CatchOnlyBudgetExhausted(exc) ==
  IF exc = "BudgetExhaustedException" THEN "budget_exhausted" ELSE "uncaught"

\* The catch clauses of lines 510-514: the handler an exception thrown in the
\* try block ends in.
CatchClause(exc) ==
  IF exc = "BudgetExhaustedException" THEN "budget_exhausted"
  ELSE IF exc = "std::exception" THEN "unexpected_error"
  ELSE "uncaught"

\* Where control goes once the try block has ended in handler h: on to
\* lines 516-518, or out of my_search with the exception.
AfterTry(h) == IF h = "uncaught" THEN "terminated" ELSE "search_free"

\* coco_allocate_vector and coco_free_memory on one buffer.
Allocate(b) == IF b \in {"none", "freed"} THEN "allocated" ELSE "leaked"
Free(b) == IF b = "allocated" THEN "freed" ELSE "invalid_free"

\* my_search called on its own, with any budget, on a problem that may have
\* been evaluated before.  Lines 438-439 assert one objective and at least
\* one constraint.
SearchInit ==
  \E dim \in 1..SearchMaxDimension, budget \in 0..SearchMaxBudget,
     ncons \in 1..MaxConstraints,
     ef \in 0..SearchMaxEvaluations, ec \in 0..SearchMaxEvaluations :
    /\ dimension = dim
    /\ max_budget = budget
    /\ lower_bounds = Bounds(dim, -5, 5).lb
    /\ upper_bounds = Bounds(dim, -5, 5).ub
    /\ PROBLEM = [NewProblem(dim, ncons) EXCEPT
                    !.evaluations = ef, !.evaluations_constraints = ec]
    /\ at_call = [evaluations |-> ef, evaluations_constraints |-> ec]
    /\ logged = NotLogged
    /\ x = [j \in 1..dim |-> 0]
    /\ GridIdle
    /\ RandomIdle
    /\ SearchIdle
    /\ BUDGET_MULTIPLIER = 0 /\ INDEPENDENT_RESTARTS = 0
    /\ firstFunction = 0 /\ lastFunction = 0
    /\ suite_index = 0 /\ prevDimension = 0 /\ cnt = 0 /\ run = 0
    /\ evaluations_done = 0 /\ evaluations_remaining = 0
    /\ outcome = "none"
    /\ TimingIdle
    /\ pc = "search"

\* Lines 441-448: the buffers are allocated; the warm-up constraint
\* evaluation at the initial solution.
SearchWarmupCons ==
  /\ pc = "search"
  /\ buffers' = [NoBuffers EXCEPT !.x = Allocate(@),
                                  !.functions_values = Allocate(@),
                                  !.constraints_values = Allocate(@)]
  /\ x' = InitialSolution(dimension)
  /\ PROBLEM' = EvaluateConstraint(PROBLEM)
  /\ logged' = [kind |-> "constraint", point |-> x']
  /\ wrapper_calls' = 0
  /\ handler' = "none"
  /\ pc' = "warmup_func"
  /\ UNCHANGED <<dimension, max_budget, lower_bounds, upper_bounds, caller,
                 gridVars, randomVars, driverVars, timingVars>>

\* SearchWarmupFunc behind the budget test of the wrappers.
SearchWarmupFuncChecked ==
  /\ pc = "warmup_func"
  /\ IF BudgetExhausted(PROBLEM, max_budget)
       THEN /\ handler' = CatchClause("BudgetExhaustedException")
            /\ pc' = AfterTry(handler')
            /\ UNCHANGED <<PROBLEM, logged>>
       ELSE /\ PROBLEM' = EvaluateFunction(PROBLEM)
            /\ logged' = [kind |-> "function", point |-> x]
            /\ pc' = "solver"
            /\ UNCHANGED handler
  /\ buffers' = [buffers EXCEPT !.values = Free(Allocate(@))]
  /\ UNCHANGED <<strategyVars, caller, wrapper_calls, gridVars, randomVars,
                 driverVars, timingVars>>

\* Line 449: the warm-up objective evaluation at the same point.  Lines
\* 490-504: the try block is entered, the initial solution is copied through
\* the vector `values` (allocated in line 491, freed in line 497) and the
\* solver is constructed.
SearchWarmupFunc ==
  /\ pc = "warmup_func"
  /\ PROBLEM' = EvaluateFunction(PROBLEM)
  /\ logged' = [kind |-> "function", point |-> x]
  /\ buffers' = [buffers EXCEPT !.values = Free(Allocate(@))]
  /\ pc' = "solver"
  /\ UNCHANGED <<strategyVars, gridVars, randomVars, caller, wrapper_calls,
                 handler, driverVars, timingVars>>

\* The solver calls evalFuncWrapper, lines 467-477.
SolverCallFunc ==
  /\ pc = "solver"
  /\ wrapper_calls' = wrapper_calls + 1
  /\ IF BudgetExhausted(PROBLEM, max_budget)
       THEN /\ handler' = CatchClause("BudgetExhaustedException")
            /\ pc' = AfterTry(handler')
            /\ UNCHANGED <<PROBLEM, logged, x>>
       ELSE /\ \E xVec \in SolverPoints : x' = xVec
            /\ PROBLEM' = EvaluateFunction(PROBLEM)
            /\ logged' = [kind |-> "function", point |-> x']
            /\ UNCHANGED <<pc, handler>>
  /\ UNCHANGED <<dimension, max_budget, lower_bounds, upper_bounds, caller,
                 buffers, gridVars, randomVars, driverVars, timingVars>>

\* The solver calls evalConsWrapper, lines 451-465.
SolverCallCons ==
  /\ pc = "solver"
  /\ wrapper_calls' = wrapper_calls + 1
  /\ IF BudgetExhausted(PROBLEM, max_budget)
       THEN /\ handler' = CatchClause("BudgetExhaustedException")
            /\ pc' = AfterTry(handler')
            /\ UNCHANGED <<PROBLEM, logged, x>>
       ELSE /\ \E xVec \in SolverPoints : x' = xVec
            /\ PROBLEM' = EvaluateConstraint(PROBLEM)
            /\ logged' = [kind |-> "constraint", point |-> x']
            /\ UNCHANGED <<pc, handler>>
  /\ UNCHANGED <<dimension, max_budget, lower_bounds, upper_bounds, caller,
                 buffers, gridVars, randomVars, driverVars, timingVars>>

\* solver.run() returns, lines 505-509: a termination criterion is printed.
SolverConverge ==
  /\ pc = "solver"
  /\ handler' = "converged"
  /\ pc' = "search_free"
  /\ UNCHANGED <<PROBLEM, logged, strategyVars, caller, wrapper_calls, buffers,
                 gridVars, randomVars, driverVars, timingVars>>

\* The solver fails with an exception other than BudgetExhaustedException.
SolverFail ==
  /\ pc = "solver"
  /\ handler' = CatchClause("std::exception")
  /\ pc' = AfterTry(handler')
  /\ UNCHANGED <<PROBLEM, logged, strategyVars, caller, wrapper_calls, buffers,
                 gridVars, randomVars, driverVars, timingVars>>

\* SearchReturn without the free of line 518.
SearchReturnLeaks ==
  /\ pc = "search_free"
  /\ buffers' = [buffers EXCEPT !.x = Free(@), !.functions_values = Free(@)]
  /\ pc' = IF caller = "example_experiment" THEN "check" ELSE "search_done"
  /\ UNCHANGED <<PROBLEM, logged, strategyVars, caller, wrapper_calls, handler,
                 gridVars, randomVars, driverVars, timingVars>>

\* Lines 516-519: the buffers are freed and my_search returns.
SearchReturn ==
  /\ pc = "search_free"
  /\ buffers' = [buffers EXCEPT !.x = Free(@), !.functions_values = Free(@),
                                !.constraints_values = Free(@)]
  /\ pc' = IF caller = "example_experiment" THEN "check" ELSE "search_done"
  /\ UNCHANGED <<PROBLEM, logged, strategyVars, caller, wrapper_calls, handler,
                 gridVars, randomVars, driverVars, timingVars>>

SearchNext ==
  \/ SearchWarmupCons
  \/ SearchWarmupFunc
  \/ SolverCallFunc
  \/ SolverCallCons
  \/ SolverConverge
  \/ SolverFail
  \/ SearchReturn

SpecSearch == SearchInit /\ [][SearchNext]_vars

-----------------------------------------------------------------------------
(* The timing instrumentation *)

RECURSIVE Gcd(_, _)
Gcd(a, b) == IF b = 0 THEN a ELSE Gcd(b, a % b)

\* difftime(now, start_time) / cumulative_evaluations, line 560: the quotient
\* as a fraction in lowest terms, so that equal quotients are equal values.
SecondsPerEvaluation(elapsed, evals) ==
  LET g == Gcd(elapsed, evals) IN <<elapsed \div g, evals \div g>>

\* The summary line of lines 561-562: the dimension just finished and the
\* seconds per evaluation.
SummaryLine(td, t) ==
  [dimension |-> td.previous_dimension,
   seconds_per_evaluation |->
     SecondsPerEvaluation(t - td.start_time, td.cumulative_evaluations)]

\* TimingTimeProblem without the flush for the sentinel.
TimingTimeProblemNoSentinel(td, problem, t) ==
  IF problem = NULL THEN td
  ELSE IF td.previous_dimension # problem.dimension
    THEN LET flushed ==
               IF td.cumulative_evaluations > 0
                 THEN [td EXCEPT !.output = Append(@, SummaryLine(td, t)),
                                 !.current_idx = @ + 1]
                 ELSE td
         IN [flushed EXCEPT
               !.previous_dimension = problem.dimension,
               !.cumulative_evaluations = problem.evaluations,
               !.start_time = t]
    ELSE [td EXCEPT !.cumulative_evaluations = @ + problem.evaluations]

\* TimingTimeProblem with the clock read anew for every problem.
TimingTimeProblemRestartsClock(td, problem, t) ==
  IF problem = NULL \/ td.previous_dimension # problem.dimension
    THEN LET flushed ==
               IF td.cumulative_evaluations > 0
                 THEN [td EXCEPT !.output = Append(@, SummaryLine(td, t)),
                                 !.current_idx = @ + 1]
                 ELSE td
         IN IF problem # NULL
              THEN [flushed EXCEPT
                      !.previous_dimension = problem.dimension,
                      !.cumulative_evaluations = problem.evaluations,
                      !.start_time = t]
              ELSE flushed
    ELSE [td EXCEPT !.cumulative_evaluations = @ + problem.evaluations,
                    !.start_time = t]

\* TimingTimeProblem with a new segment that starts from zero.
TimingTimeProblemDropsFirst(td, problem, t) ==
  IF problem = NULL \/ td.previous_dimension # problem.dimension
    THEN LET flushed ==
               IF td.cumulative_evaluations > 0
                 THEN [td EXCEPT !.output = Append(@, SummaryLine(td, t)),
                                 !.current_idx = @ + 1]
                 ELSE td
         IN IF problem # NULL
              THEN [flushed EXCEPT
                      !.previous_dimension = problem.dimension,
                      !.cumulative_evaluations = 0,
                      !.start_time = t]
              ELSE flushed
    ELSE [td EXCEPT !.cumulative_evaluations = @ + problem.evaluations]

\* TimingTimeProblem with every call taken as a change of dimension.
TimingTimeProblemEveryCall(td, problem, t) ==
  LET flushed ==
        IF td.cumulative_evaluations > 0
          THEN [td EXCEPT !.output = Append(@, SummaryLine(td, t)),
                          !.current_idx = @ + 1]
          ELSE td
  IN IF problem # NULL
       THEN [flushed EXCEPT
               !.previous_dimension = problem.dimension,
               !.cumulative_evaluations = problem.evaluations,
               !.start_time = t]
       ELSE flushed

\* timing_data_time_problem, lines 550-575, at time t.
TimingTimeProblem(td, problem, t) ==
  IF problem = NULL \/ td.previous_dimension # problem.dimension
    THEN LET flushed ==
               IF td.cumulative_evaluations > 0
                 THEN [td EXCEPT !.output = Append(@, SummaryLine(td, t)),
                                 !.current_idx = @ + 1]
                 ELSE td
         IN IF problem # NULL
              THEN [flushed EXCEPT
                      !.previous_dimension = problem.dimension,
                      !.cumulative_evaluations = problem.evaluations,
                      !.start_time = t]
              ELSE flushed
    ELSE [td EXCEPT !.cumulative_evaluations = @ + problem.evaluations]

-----------------------------------------------------------------------------
(* The suite *)

\* The dimensions of the suite, line 206; the model keeps the first
\* MaxDimensions of them.
AllDimensions == <<2, 3, 5, 10, 20, 40>>
SuiteDimensions == SubSeq(AllDimensions, 1, Min(MaxDimensions, Len(AllDimensions)))

\* "instances: 1-15", line 206: as many as line 216 assumes.
SuiteInstances == nInstances

\* The number of constraints of function f (at least one in this suite).
SuiteConstraints(f) == 1 + ((f - 1) % MaxConstraints)

NumberOfProblems == Len(SuiteDimensions) * MaxFunctions * SuiteInstances

\* The k-th problem of the suite (k from 0): the suite runs through the
\* dimensions, within a dimension through the functions, within a function
\* through the instances.
SuiteProblem(k) ==
  LET perDimension == MaxFunctions * SuiteInstances
      f == ((k % perDimension) \div SuiteInstances) + 1
  IN [NewProblem(SuiteDimensions[(k \div perDimension) + 1], SuiteConstraints(f))
        EXCEPT !.function = f, !.instance = (k % SuiteInstances) + 1]

-----------------------------------------------------------------------------
(* example_experiment.  time() counts whole seconds; the runs of the model
   are short, and the clock stays at the second the experiment started in. *)

\* Good with <= for < in the upper test.
GoodOffByOne(c, first, last) ==
  ((first - 1) * nInstances < c) /\ (c <= last * nInstances + 1)

\* Lines 236-240: whether the problem at position c of its dimension is run.
Good(c, first, last) ==
  ((first - 1) * nInstances < c) /\ (c < last * nInstances + 1)

\* Line 254.
EvaluationsRemaining(dim, done) == dim * BUDGET_MULTIPLIER - done

\* RunBreaks with the test for constraints left out.
RunBreaksOnAnyHit(p, remaining) ==
  p.final_target_hit \/ (remaining <= 0)

\* RunBreaks with < for <= in the budget test.
RunBreaksBelowZero(p, remaining) ==
  (p.final_target_hit /\ p.number_of_constraints = 0) \/ (remaining < 0)

\* Lines 257-260: whether the restart loop is left before the strategy is called.
RunBreaks(p, remaining) ==
  (p.final_target_hit /\ p.number_of_constraints = 0) \/ (remaining <= 0)

\* Lines 273-279: what the driver does after the strategy has returned, from
\* the counters it reads then and evaluations_done read before the call.
CheckOutcome(p, done) ==
  IF p.evaluations = done THEN "warning"
  ELSE IF Total(p) < done THEN "error"
  ELSE "continue"

ExperimentInit ==
  \E mult \in 1..MaxBudgetMultiplier, restarts \in 0..MaxIndependentRestarts,
     first \in 1..MaxFunctions, last \in 1..MaxFunctions :
    /\ first <= last
    /\ BUDGET_MULTIPLIER = mult
    /\ INDEPENDENT_RESTARTS = restarts
    /\ firstFunction = first
    /\ lastFunction = last
    /\ suite_index = 0
    /\ prevDimension = 0
    /\ cnt = 1
    /\ run = 0
    /\ evaluations_done = 0
    /\ evaluations_remaining = 0
    /\ at_call = NoCounters
    /\ outcome = "none"
    /\ PROBLEM = NULL
    /\ logged = NotLogged
    /\ dimension = 0 /\ max_budget = 0
    /\ lower_bounds = <<>> /\ upper_bounds = <<>> /\ x = <<>>
    /\ GridIdle
    /\ RandomIdle
    /\ SearchIdle
    /\ timing_data = NewTimingData(Len(SuiteDimensions), 0)
    /\ now = 0 /\ printed = <<>> /\ fed = <<>>
    /\ pc = "next_problem"

\* FilterProblem with the call of line 283 made for a skipped problem too.
FilterProblemTimesSkipped(p) ==
  /\ pc = "next_problem"
  /\ suite_index < NumberOfProblems
  /\ PROBLEM' = p
  /\ suite_index' = suite_index + 1
  /\ prevDimension' = PROBLEM'.dimension
  /\ LET c == IF PROBLEM'.dimension # prevDimension THEN 1 ELSE cnt IN
       IF Good(c, firstFunction, lastFunction)
         THEN /\ cnt' = c
              /\ run' = 1
              /\ pc' = "run_loop"
              /\ UNCHANGED timing_data
         ELSE /\ cnt' = c + 1
              /\ pc' = "next_problem"
              /\ timing_data' = TimingTimeProblem(timing_data, p, now)
              /\ UNCHANGED run
  /\ outcome' = "none"
  /\ logged' = NotLogged
  /\ UNCHANGED <<strategyVars, gridVars, randomVars, searchVars, configVars,
                 evaluations_done, evaluations_remaining, at_call,
                 now, printed, fed>>

\* Lines 227-244 for the problem p the suite hands out: the function filter.
FilterProblem(p) ==
  /\ pc = "next_problem"
  /\ suite_index < NumberOfProblems
  /\ PROBLEM' = p
  /\ suite_index' = suite_index + 1
  /\ prevDimension' = PROBLEM'.dimension
  /\ LET c == IF PROBLEM'.dimension # prevDimension THEN 1 ELSE cnt IN
       IF Good(c, firstFunction, lastFunction)
         THEN /\ cnt' = c
              /\ run' = 1
              /\ pc' = "run_loop"
         ELSE /\ cnt' = c + 1
              /\ pc' = "next_problem"
              /\ UNCHANGED run
  /\ outcome' = "none"
  /\ logged' = NotLogged
  /\ UNCHANGED <<strategyVars, gridVars, randomVars, searchVars, configVars,
                 evaluations_done, evaluations_remaining, at_call,
                 timingVars>>

\* Lines 227-244 with the next problem of the suite of line 157.
NextProblem == FilterProblem(SuiteProblem(suite_index))

\* Lines 247-270: the loop test, the remaining budget, the break of line 260
\* or the call of my_search.
RunLoop ==
  /\ pc = "run_loop"
  /\ IF run <= 1 + INDEPENDENT_RESTARTS
       THEN /\ evaluations_done' = Total(PROBLEM)
            /\ evaluations_remaining' =
                 EvaluationsRemaining(PROBLEM.dimension, evaluations_done')
            /\ IF RunBreaks(PROBLEM, evaluations_remaining')
                 THEN /\ pc' = "time_problem"
                      /\ UNCHANGED <<strategyVars, searchVars, at_call, outcome>>
                 ELSE /\ dimension' = PROBLEM.dimension
                      /\ max_budget' = evaluations_remaining'
                      /\ lower_bounds' = Bounds(PROBLEM.dimension, -5, 5).lb
                      /\ upper_bounds' = Bounds(PROBLEM.dimension, -5, 5).ub
                      /\ caller' = "example_experiment"
                      /\ at_call' = [evaluations |-> PROBLEM.evaluations,
                                     evaluations_constraints |->
                                       PROBLEM.evaluations_constraints]
                      /\ outcome' = "none"
                      /\ pc' = "search"
                      /\ UNCHANGED <<x, wrapper_calls, handler, buffers>>
       ELSE /\ pc' = "time_problem"
            /\ UNCHANGED <<strategyVars, searchVars, evaluations_done,
                           evaluations_remaining, at_call, outcome>>
  /\ UNCHANGED <<PROBLEM, logged, gridVars, randomVars, configVars, suite_index,
                 prevDimension, cnt, run, timingVars>>

\* Lines 273-280: the checks after the call, and run++.
CheckEvaluations ==
  /\ pc = "check"
  /\ outcome' = CheckOutcome(PROBLEM, evaluations_done)
  /\ pc' = IF outcome' = "warning" THEN "time_problem"
           ELSE IF outcome' = "error" THEN "aborted"
           ELSE "run_loop"
  /\ run' = IF outcome' = "continue" THEN run + 1 ELSE run
  /\ UNCHANGED <<PROBLEM, logged, strategyVars, gridVars, randomVars, searchVars,
                 configVars, suite_index, prevDimension, cnt, evaluations_done,
                 evaluations_remaining, at_call, timingVars>>

\* TimeProblem without the call of line 283.
TimeProblemNotFed ==
  /\ pc = "time_problem"
  /\ cnt' = cnt + 1
  /\ pc' = "next_problem"
  /\ UNCHANGED <<PROBLEM, logged, strategyVars, gridVars, randomVars, searchVars,
                 configVars, suite_index, prevDimension, run, evaluations_done,
                 evaluations_remaining, at_call, outcome, timingVars>>

\* Lines 283-285: the problem is given to the timing, and cnt += 1.
TimeProblem ==
  /\ pc = "time_problem"
  /\ timing_data' = TimingTimeProblem(timing_data, PROBLEM, now)
  /\ cnt' = cnt + 1
  /\ pc' = "next_problem"
  /\ UNCHANGED <<PROBLEM, logged, strategyVars, gridVars, randomVars, searchVars,
                 configVars, suite_index, prevDimension, run, evaluations_done,
                 evaluations_remaining, at_call, outcome, now, printed, fed>>

\* Lines 227 and 288-294: the suite is at its end, the timing is finalized
\* (lines 580-609) and its summary lines are printed.
EndOfSuite ==
  /\ pc = "next_problem"
  /\ suite_index >= NumberOfProblems
  /\ PROBLEM' = NULL
  /\ timing_data' = TimingTimeProblem(timing_data, NULL, now)
  /\ printed' = timing_data'.output
  /\ pc' = "done"
  /\ UNCHANGED <<logged, strategyVars, gridVars, randomVars, searchVars,
                 driverVars, now, fed>>

Next ==
  \/ NextProblem
  \/ RunLoop
  \/ SearchWarmupCons
  \/ SearchWarmupFunc
  \/ SolverCallFunc
  \/ SolverCallCons
  \/ SolverConverge
  \/ SolverFail
  \/ SearchReturn
  \/ CheckEvaluations
  \/ TimeProblem
  \/ EndOfSuite

Init == ExperimentInit

Spec == Init /\ [][Next]_vars

\* The experiment is one thread that runs whenever it can take a step; the
\* solver, as long as it runs, evaluates, converges or fails.
FairSpec == Spec /\ WF_vars(Next)

-----------------------------------------------------------------------------
(* The experiment loop with a mock problem and a mock strategy: the problem
   has any number of constraints (none included), and the strategy leaves
   its counters at any values and may hit the final target. *)

MockNextProblem ==
  \E ncons \in 0..MaxConstraints :
    FilterProblem([SuiteProblem(suite_index) EXCEPT !.number_of_constraints = ncons])

MockStrategy ==
  /\ pc = "search"
  /\ \E ef \in 0..MockMaxEvaluations, ec \in 0..MockMaxEvaluations,
        hit \in {PROBLEM.final_target_hit, TRUE} :
       PROBLEM' = [PROBLEM EXCEPT !.evaluations = ef,
                                  !.evaluations_constraints = ec,
                                  !.final_target_hit = hit]
  /\ pc' = "check"
  /\ UNCHANGED <<logged, strategyVars, gridVars, randomVars, searchVars,
                 driverVars, timingVars>>

MockNext ==
  \/ MockNextProblem
  \/ RunLoop
  \/ MockStrategy
  \/ CheckEvaluations
  \/ TimeProblem
  \/ EndOfSuite

SpecMock == ExperimentInit /\ [][MockNext]_vars

-----------------------------------------------------------------------------
(* The timing instrumentation on its own: a stream of problems, grouped by
   ascending dimension as the suite hands them out, each with the objective
   evaluations it has when it is timed; one second passes per problem. *)

TimingDimensions == SubSeq(AllDimensions, 1, Min(TimingMaxDimensions, Len(AllDimensions)))

TimingInit ==
  /\ timing_data = NewTimingData(Len(TimingDimensions), 0)
  /\ now = 0
  /\ printed = <<>>
  /\ fed = <<>>
  /\ PROBLEM = NULL
  /\ logged = NotLogged
  /\ dimension = 0 /\ max_budget = 0
  /\ lower_bounds = <<>> /\ upper_bounds = <<>> /\ x = <<>>
  /\ GridIdle
  /\ RandomIdle
  /\ SearchIdle
  /\ DriverIdle
  /\ pc = "timing"

\* timing_data_time_problem(timing_data, problem) for the next problem.
TimingFeed ==
  /\ pc = "timing"
  /\ Len(fed) < TimingMaxStream
  /\ \E k \in 1..Len(TimingDimensions), e \in 0..TimingMaxEvaluations :
       /\ fed # <<>> => TimingDimensions[k] >= fed[Len(fed)].dimension
       /\ PROBLEM' = [NewProblem(TimingDimensions[k], 1) EXCEPT !.evaluations = e]
       /\ fed' = Append(fed, [dimension |-> TimingDimensions[k], evaluations |-> e])
  /\ now' = now + 1
  /\ timing_data' = TimingTimeProblem(timing_data, PROBLEM', now')
  /\ UNCHANGED <<pc, logged, strategyVars, gridVars, randomVars, searchVars,
                 driverVars, printed>>

\* timing_data_finalize, lines 580-609.
TimingFinalize ==
  /\ pc = "timing"
  /\ timing_data' = TimingTimeProblem(timing_data, NULL, now)
  /\ printed' = timing_data'.output
  /\ pc' = "timing_done"
  /\ UNCHANGED <<PROBLEM, logged, strategyVars, gridVars, randomVars, searchVars,
                 driverVars, now, fed>>

TimingNext == TimingFeed \/ TimingFinalize

SpecTiming == TimingInit /\ [][TimingNext]_vars

-----------------------------------------------------------------------------
(* The claims *)

InSearch == pc \in {"search", "warmup_func", "solver"}
AfterCheck == pc \in {"run_loop", "time_problem", "aborted"} /\ outcome # "none"

(* C2: during a call of my_search by the driver with budget max_budget, no
   evaluation is started in a state where the problem's objective plus
   constraint evaluations have already reached max_budget. *)
C2_Step ==
  (caller = "example_experiment" /\ InSearch /\ Total(PROBLEM') > Total(PROBLEM))
    => Total(PROBLEM) < max_budget

C2_NoEvaluationAtBudget == [][C2_Step]_vars

(* C3: the driver calls my_search only with a strictly positive budget:
   never when dimension * BUDGET_MULTIPLIER - (objective + constraint
   evaluations) <= 0. *)
C3_PositiveBudget ==
  (caller = "example_experiment" /\ pc = "search") =>
    /\ PROBLEM.dimension * BUDGET_MULTIPLIER - Total(PROBLEM) > 0
    /\ max_budget = PROBLEM.dimension * BUDGET_MULTIPLIER - Total(PROBLEM)
    /\ max_budget > 0

\* A restart with the one evaluation that is left.
C3_Witness ==
  /\ pc = "search"
  /\ caller = "example_experiment"
  /\ run = 2
  /\ Total(PROBLEM) = 2
  /\ max_budget = 1

(* C4: whenever a counter of the problem (objective or constraint) read after
   a strategy call is lower than before the call, the driver raises the
   fatal error and the run is aborted. *)
C4_RegressionIsFatal ==
  (AfterCheck /\ (\/ PROBLEM.evaluations < at_call.evaluations
                  \/ PROBLEM.evaluations_constraints <
                       at_call.evaluations_constraints))
    => (outcome = "error" /\ pc = "aborted")

(* C6: my_search with budget 0: the first wrapper call of the solver signals
   Budget Exhausted; the counters grow by the warm-up pair and nothing more,
   and the call ends in the Budget Exhausted handler. *)
C6_ZeroBudget ==
  (max_budget = 0 /\ pc \in {"solver", "search_free", "search_done"}) =>
    /\ PROBLEM.evaluations = at_call.evaluations + 1
    /\ PROBLEM.evaluations_constraints = at_call.evaluations_constraints + 1
    /\ wrapper_calls <= 1
    /\ (wrapper_calls = 1) => (handler = "budget_exhausted" /\ pc # "solver")

C6_Witness ==
  /\ pc = "search_done"
  /\ max_budget = 0
  /\ at_call = NoCounters
  /\ wrapper_calls = 1
  /\ handler = "budget_exhausted"
  /\ Total(PROBLEM) = 2

(* C7: my_search always returns to the driver, however the try block ends
   (solver converged, Budget Exhausted, any other failure of the solver), and
   the experiment loop goes on to the next restart or problem; only a
   regression of the evaluation count aborts the run. *)
C7_State ==
  /\ pc # "terminated"
  /\ pc = "aborted" => Total(PROBLEM) < evaluations_done
  /\ pc \in {"search_free", "check"} =>
       handler \in {"converged", "budget_exhausted", "unexpected_error"}

C7_Step ==
  /\ pc = "solver" => pc' \in {"solver", "search_free"}
  /\ (pc = "search_free" /\ caller = "example_experiment") => pc' = "check"
  /\ (pc = "check" /\ Total(PROBLEM) >= evaluations_done) =>
       pc' \in {"run_loop", "time_problem"}

RECURSIVE GroupDimensions(_)
GroupDimensions(s) ==
  IF s = <<>> THEN <<>>
  ELSE LET n == Len(s)
           front == GroupDimensions(SubSeq(s, 1, n - 1))
       IN IF n > 1 /\ s[n].dimension = s[n - 1].dimension
            THEN front
            ELSE Append(front, s[n].dimension)

C8_OneLinePerDimension ==
  pc = "timing_done" =>
    /\ (\A k \in 1..Len(fed) : fed[k].evaluations > 0) =>
         /\ Len(printed) = Len(GroupDimensions(fed))
         /\ [k \in 1..Len(printed) |-> printed[k].dimension] = GroupDimensions(fed)
    /\ fed = <<>> => printed = <<>>

C8_Witness ==
  /\ pc = "timing_done"
  /\ [k \in 1..Len(fed) |-> fed[k].dimension] = <<2, 2, 3, 3, 3, 5>>
  /\ \A k \in 1..Len(fed) : fed[k].evaluations > 0
  /\ Len(printed) = 3
  /\ [k \in 1..3 |-> printed[k].dimension] = <<2, 3, 5>>

(* C10: if a strategy call performs zero evaluations (both counters are the
   same after the call as before), the driver prints the warning and stops
   restarting the problem without aborting; and it warns only in that case. *)
C10_WarningIffNoEvaluations ==
  AfterCheck =>
    /\ (outcome = "warning") <=>
         (/\ PROBLEM.evaluations = at_call.evaluations
          /\ PROBLEM.evaluations_constraints = at_call.evaluations_constraints)
    /\ outcome = "warning" => pc = "time_problem"

(* C11: my_grid_search enumerates the nodes as an odometer with axis 0 least
   significant: the k-th evaluated node (k from 0) has as index vector the
   digits of k in base max_nodes+1, so no node is evaluated twice, and a
   budget below the size of the grid gets the first budget nodes of that
   order. *)
Digits(k, base, dim) == [j \in 1..dim |-> (k \div Power(base, j - 1)) % base]

C11_OdometerOrder ==
  /\ pc = "grid_move" =>
       /\ 1 <= evaluations /\ evaluations <= Power(max_nodes + 1, dimension)
       /\ nodes = Digits(evaluations - 1, max_nodes + 1, dimension)
       /\ logged.point = GridPoint(Digits(evaluations - 1, max_nodes + 1, dimension),
                                   max_nodes, lower_bounds, upper_bounds, dimension)
  /\ pc = "grid_loop" =>
       /\ evaluations < Power(max_nodes + 1, dimension)
       /\ nodes = Digits(evaluations, max_nodes + 1, dimension)
  /\ pc = "grid_done" =>
       evaluations = Min(max_budget, Power(max_nodes + 1, dimension))

\* A budget of 5 on the 8 corners of a cube: the fifth node, after a carry
\* into the last axis, is the last one evaluated.
C11_Witness ==
  /\ pc = "grid_done"
  /\ dimension = 3
  /\ max_budget = 5
  /\ max_nodes = 1
  /\ evaluations = 5
  /\ lower_bounds[1] < upper_bounds[1]
  /\ logged.point = GridPoint(<<0, 0, 1>>, 1, lower_bounds, upper_bounds, 3)

(* C12: every call of my_search, whatever its budget, begins with one
   constraint evaluation and then one objective evaluation at the initial
   solution, both without a budget test and before the solver evaluates
   anything; every call raises both counters by at least 1. *)
C12_State ==
  /\ pc = "warmup_func" =>
       /\ PROBLEM.evaluations_constraints = at_call.evaluations_constraints + 1
       /\ PROBLEM.evaluations = at_call.evaluations
       /\ logged = [kind |-> "constraint", point |-> InitialSolution(dimension)]
       /\ wrapper_calls = 0
  /\ (pc = "solver" /\ wrapper_calls = 0) =>
       /\ PROBLEM.evaluations_constraints = at_call.evaluations_constraints + 1
       /\ PROBLEM.evaluations = at_call.evaluations + 1
       /\ logged = [kind |-> "function", point |-> InitialSolution(dimension)]
  /\ pc \in {"solver", "search_free", "search_done", "check"} =>
       /\ PROBLEM.evaluations >= at_call.evaluations + 1
       /\ PROBLEM.evaluations_constraints >= at_call.evaluations_constraints + 1

C12_Step ==
  /\ pc = "search" =>
       (pc' = "warmup_func" /\ PROBLEM' = EvaluateConstraint(PROBLEM))
  /\ pc = "warmup_func" =>
       (pc' = "solver" /\ PROBLEM' = EvaluateFunction(PROBLEM))

C12_WarmupPair == [](C12_State) /\ [][C12_Step]_vars

\* The warm-up pair of a call with budget 0 on a problem evaluated before.
C12_Witness ==
  /\ pc = "solver"
  /\ wrapper_calls = 0
  /\ max_budget = 0
  /\ at_call = [evaluations |-> 2, evaluations_constraints |-> 1]
  /\ PROBLEM.evaluations = 3
  /\ PROBLEM.evaluations_constraints = 2
  /\ logged = [kind |-> "function", point |-> InitialSolution(dimension)]

(* C13: with a suite that yields, within each dimension, nInstances
   instances per function in ascending function id, the driver processes a
   problem if and only if its function id lies in
   [firstFunction, lastFunction]; cnt is 1 at the first problem of every
   dimension and grows by exactly 1 per problem, accepted or skipped. *)
Processing ==
  pc \in {"run_loop", "search", "warmup_func", "solver", "search_free", "check",
          "time_problem"}

\* The position of the problem handed out last within its dimension, from 1.
PositionInDimension == ((suite_index - 1) % (MaxFunctions * SuiteInstances)) + 1

InFunctionRange(p) == firstFunction <= p.function /\ p.function <= lastFunction

C13_State ==
  /\ Processing => (cnt = PositionInDimension /\ InFunctionRange(PROBLEM))
  /\ (pc = "next_problem" /\ suite_index = 0) => cnt = 1
  /\ (pc = "next_problem" /\ suite_index > 0) => cnt = PositionInDimension + 1

C13_Step ==
  suite_index' # suite_index =>
    /\ (pc' = "run_loop") <=> InFunctionRange(PROBLEM')
    /\ (pc' # "run_loop") => pc' = "next_problem"
    /\ PROBLEM'.dimension # prevDimension =>
         cnt' = IF pc' = "run_loop" THEN 1 ELSE 2
    /\ PROBLEM'.dimension = prevDimension =>
         cnt' = IF pc' = "run_loop" THEN cnt ELSE cnt + 1

C13_FunctionFilter == [](C13_State) /\ [][C13_Step]_vars

\* In the second dimension the instances of function 1 have been skipped and
\* the first instance of function 2 is accepted.
C13_Witness ==
  /\ pc = "run_loop"
  /\ firstFunction = 2
  /\ PROBLEM.function = 2
  /\ PROBLEM.instance = 1
  /\ PROBLEM.dimension = SuiteDimensions[2]
  /\ cnt = nInstances + 1

(* C14: for each accepted problem the driver calls the strategy at most
   1 + INDEPENDENT_RESTARTS times, each time with the budget
   dimension * BUDGET_MULTIPLIER minus the objective plus constraint
   evaluations made so far; it starts no run once the final target is hit on
   a problem without constraints or the remaining budget is <= 0; a hit
   target on a problem with constraints does not stop the restarts. *)
RemainingBudget(p) == p.dimension * BUDGET_MULTIPLIER - Total(p)

C14_State ==
  (pc = "search" /\ caller = "example_experiment") =>
    /\ 1 <= run /\ run <= 1 + INDEPENDENT_RESTARTS
    /\ max_budget = RemainingBudget(PROBLEM)
    /\ max_budget > 0
    /\ ~(PROBLEM.final_target_hit /\ PROBLEM.number_of_constraints = 0)

C14_Step ==
  /\ (pc = "next_problem" /\ pc' = "run_loop") => run' = 1
  /\ (pc = "check" /\ pc' = "run_loop") => run' = run + 1
  /\ pc' = "search" => (pc = "run_loop" /\ run' = run)
  /\ (/\ pc = "run_loop"
      /\ \/ PROBLEM.final_target_hit /\ PROBLEM.number_of_constraints = 0
         \/ RemainingBudget(PROBLEM) <= 0
         \/ run > 1 + INDEPENDENT_RESTARTS)
       => pc' = "time_problem"
  /\ (/\ pc = "run_loop"
      /\ run <= 1 + INDEPENDENT_RESTARTS
      /\ PROBLEM.final_target_hit /\ PROBLEM.number_of_constraints > 0
      /\ RemainingBudget(PROBLEM) > 0)
       => pc' = "search"

C15_Step ==
  (fed' # fed /\ PROBLEM' # NULL
     /\ PROBLEM'.dimension = timing_data.previous_dimension) =>
    /\ timing_data'.cumulative_evaluations =
         timing_data.cumulative_evaluations + PROBLEM'.evaluations
    /\ timing_data'.previous_dimension = timing_data.previous_dimension
    /\ timing_data'.start_time = timing_data.start_time
    /\ timing_data'.overall_start_time = timing_data.overall_start_time
    /\ timing_data'.current_idx = timing_data.current_idx
    /\ timing_data'.output = timing_data.output
    /\ timing_data'.number_of_dimensions = timing_data.number_of_dimensions
    /\ printed' = printed

C15_SameDimensionAddsOnly == [][C15_Step]_vars

\* Two problems of one dimension: the second was added to the first, and
\* the segment still starts at the time of the first.
C15_Witness ==
  /\ pc = "timing"
  /\ fed = <<[dimension |-> 2, evaluations |-> 1], [dimension |-> 2, evaluations |-> 2]>>
  /\ timing_data.cumulative_evaluations = 3
  /\ timing_data.start_time = 1
  /\ now = 2
  /\ timing_data.output = <<>>

(* C16: at every flush of the timing (change of dimension or sentinel)
   cumulative_evaluations is the sum of the evaluation counts of exactly the
   problems fed since the segment started, the first included: a change of
   dimension resets the total to the count of the new problem and the
   tracked dimension to its dimension, nothing is carried over or dropped. *)
RECURSIVE SegmentSum(_)
SegmentSum(s) ==
  IF s = <<>> THEN 0
  ELSE LET n == Len(s) IN
       IF n > 1 /\ s[n - 1].dimension = s[n].dimension
         THEN SegmentSum(SubSeq(s, 1, n - 1)) + s[n].evaluations
         ELSE s[n].evaluations

C16_State ==
  pc = "timing" =>
    /\ timing_data.cumulative_evaluations = SegmentSum(fed)
    /\ timing_data.previous_dimension =
         IF fed = <<>> THEN 0 ELSE fed[Len(fed)].dimension

C16_Step ==
  /\ timing_data'.output # timing_data.output =>
       /\ timing_data.cumulative_evaluations = SegmentSum(fed)
       /\ timing_data'.output =
            Append(timing_data.output,
                   [dimension |-> fed[Len(fed)].dimension,
                    seconds_per_evaluation |->
                      SecondsPerEvaluation(now' - timing_data.start_time,
                                           SegmentSum(fed))])
  /\ (fed' # fed /\ PROBLEM'.dimension # timing_data.previous_dimension) =>
       /\ timing_data'.cumulative_evaluations = PROBLEM'.evaluations
       /\ timing_data'.previous_dimension = PROBLEM'.dimension
       /\ timing_data'.start_time = now'

C16_SegmentTotal == [](C16_State) /\ [][C16_Step]_vars

\* The segment of dimension 2 (1 + 2 evaluations in 2 seconds) was flushed
\* by a problem of dimension 3, whose count starts the next segment.
C16_Witness ==
  /\ pc = "timing"
  /\ fed = <<[dimension |-> 2, evaluations |-> 1], [dimension |-> 2, evaluations |-> 2],
             [dimension |-> 3, evaluations |-> 2]>>
  /\ timing_data.output = <<[dimension |-> 2, seconds_per_evaluation |-> <<2, 3>>]>>
  /\ timing_data.cumulative_evaluations = 2
  /\ timing_data.previous_dimension = 3

(* C17: each accepted problem is given to timing_data_time_problem exactly
   once, after its last strategy call and before the next problem is pulled
   from the suite; timing_data_finalize is called exactly once, and only
   after the suite has returned no further problem; and for a finite suite
   the loop eventually reaches that call. *)
C17_Step ==
  /\ pc = "time_problem" =>
       /\ pc' = "next_problem"
       /\ timing_data' = TimingTimeProblem(timing_data, PROBLEM, now)
       /\ PROBLEM' = PROBLEM
       /\ suite_index' = suite_index
  /\ (Processing /\ pc # "time_problem") => (pc' # "next_problem" /\ pc' # "done")
  /\ suite_index' # suite_index => pc = "next_problem"
  /\ (pc # "time_problem" /\ pc' # "done") =>
       (timing_data' = timing_data /\ printed' = printed)
  /\ pc' = "done" =>
       /\ pc = "next_problem"
       /\ suite_index = NumberOfProblems
       /\ PROBLEM' = NULL
       /\ timing_data' = TimingTimeProblem(timing_data, NULL, now)
       /\ printed' = timing_data'.output
  /\ pc # "done"

C17_State ==
  /\ pc # "done" => printed = <<>>
  /\ pc \notin {"aborted", "terminated"}

C17_TimingOncePerProblem ==
  [](C17_State) /\ [][C17_Step]_vars /\ <>(pc = "done")

\* The suite is used up and the timing finalized, with a line per dimension.
C17_Witness ==
  /\ pc = "done"
  /\ PROBLEM = NULL
  /\ suite_index = NumberOfProblems
  /\ Len(printed) = Len(SuiteDimensions)
  /\ timing_data.current_idx = Len(SuiteDimensions)

(* C18: on every exit path of my_search (solver converged, Budget Exhausted,
   other failure of the solver) the buffers the call acquired (x,
   functions_values, constraints_values and the temporary vector of the
   initial solution) have each been released exactly once, and the counters
   of the problem have grown by the evaluations actually performed: the
   unwinding does not change them. *)
AllFreed ==
  [x |-> "freed", functions_values |-> "freed", constraints_values |-> "freed",
   values |-> "freed"]

\* The evaluations of the call: the warm-up pair and the wrapper calls that
\* were not refused.
EvaluationsPerformed ==
  2 + wrapper_calls - (IF handler = "budget_exhausted" THEN 1 ELSE 0)

C18_State ==
  /\ pc \in {"search_done", "check"} =>
       /\ buffers = AllFreed
       /\ handler \in {"converged", "budget_exhausted", "unexpected_error"}
       /\ Total(PROBLEM) = Total(at_call) + EvaluationsPerformed
  /\ pc = "search_free" =>
       /\ buffers = [AllFreed EXCEPT !.x = "allocated",
                                     !.functions_values = "allocated",
                                     !.constraints_values = "allocated"]
       /\ Total(PROBLEM) = Total(at_call) + EvaluationsPerformed
  /\ \A b \in DOMAIN buffers : buffers[b] \notin {"leaked", "invalid_free"}

C18_Step ==
  ((pc = "solver" /\ pc' # "solver") \/ pc = "search_free") =>
    (PROBLEM' = PROBLEM /\ logged' = logged)

C18_CleanExit == [](C18_State) /\ [][C18_Step]_vars

\* The call was ended by Budget Exhausted after three evaluations by the
\* solver, and has returned.
C18_Witness ==
  /\ pc = "search_done"
  /\ handler = "budget_exhausted"
  /\ wrapper_calls = 4
  /\ Total(PROBLEM) = Total(at_call) + 5
  /\ buffers = AllFreed

(* C19: over all runs and restarts of the experiment loop on a problem that
   starts with no evaluations, the objective plus constraint evaluations of
   the problem never exceed dimension * BUDGET_MULTIPLIER + 1, although the
   wrappers compare the total of the problem with the remaining budget by a
   strict > and the warm-up pair is not tested. *)
C19_TotalWithinBudgetPlusOne ==
  (PROBLEM # NULL /\ caller = "example_experiment") =>
    Total(PROBLEM) <= PROBLEM.dimension * BUDGET_MULTIPLIER + 1

\* A restart with one evaluation left: its warm-up pair takes the total to
\* one above the budget.
C19_Witness ==
  /\ pc = "time_problem"
  /\ run = 2
  /\ Total(at_call) = PROBLEM.dimension * BUDGET_MULTIPLIER - 1
  /\ Total(PROBLEM) = PROBLEM.dimension * BUDGET_MULTIPLIER + 1

(* C20: for a problem stream grouped by dimension with number_of_dimensions
   distinct dimensions, current_idx never exceeds number_of_dimensions,
   after any calls of timing_data_time_problem and after finalize: no
   summary line is written past the end of the output array. *)
C20_OutputWithinArray ==
  pc \in {"timing", "timing_done"} =>
    /\ timing_data.current_idx <= timing_data.number_of_dimensions
    /\ Len(timing_data.output) = timing_data.current_idx
    /\ timing_data.current_idx <= Len(GroupDimensions(fed))

\* Every slot of the output array is used.
C20_Witness ==
  /\ pc = "timing_done"
  /\ Len(fed) >= 4
  /\ Len(GroupDimensions(fed)) = timing_data.number_of_dimensions
  /\ timing_data.current_idx = timing_data.number_of_dimensions
  /\ Len(printed) = timing_data.number_of_dimensions

(* C21: a problem skipped by the function filter causes no strategy call
   and no evaluation and leaves the whole timing record (tracked dimension,
   cumulative evaluations, timestamps, summary lines) unchanged.  As
   stated, its only effect on the state of the driver is that cnt grows by
   1 (C21_SkipOnlyIncrementsCnt).  As the code has it, the skipped problem
   also becomes the previous dimension, and cnt is first reset to 1 if the
   dimension has changed and then incremented (C21_SkippedProblem). *)
Skipped == suite_index' # suite_index /\ ~InFunctionRange(PROBLEM')

C21_NoCallNoEvaluationNoTiming ==
  /\ pc' = "next_problem"
  /\ Total(PROBLEM') = 0
  /\ UNCHANGED <<strategyVars, searchVars, timing_data, now, printed>>
  /\ UNCHANGED <<run, evaluations_done, evaluations_remaining, at_call, configVars>>

C21_OriginalStep ==
  Skipped =>
    /\ C21_NoCallNoEvaluationNoTiming
    /\ cnt' = cnt + 1
    /\ prevDimension' = prevDimension

C21_SkipOnlyIncrementsCnt == [][C21_OriginalStep]_vars

C21_AmendedStep ==
  Skipped =>
    /\ C21_NoCallNoEvaluationNoTiming
    /\ cnt' = (IF PROBLEM'.dimension # prevDimension THEN 1 ELSE cnt) + 1
    /\ prevDimension' = PROBLEM'.dimension

C21_SkippedState ==
  (pc = "next_problem" /\ PROBLEM # NULL /\ ~InFunctionRange(PROBLEM)) =>
    Total(PROBLEM) = 0

C21_SkippedProblem == [](C21_SkippedState) /\ [][C21_AmendedStep]_vars

\* The first problem of the second dimension has been skipped: cnt, which
\* had counted the problems of the first dimension, is 2, and the timing
\* still tracks the first dimension.
C21_Witness ==
  /\ pc = "next_problem"
  /\ firstFunction = 2
  /\ PROBLEM # NULL
  /\ PROBLEM.function = 1
  /\ PROBLEM.instance = 1
  /\ PROBLEM.dimension = SuiteDimensions[2]
  /\ prevDimension = SuiteDimensions[2]
  /\ cnt = 2
  /\ timing_data.previous_dimension = SuiteDimensions[1]
  /\ timing_data.cumulative_evaluations > 0

====
